---- MODULE Spec2Model ----
(***************************************************************************)
(* Commit telemetry: committelemetry/telemetry.py and the dump_telemetry   *)
(* command of committelemetry/tool.py.                                     *)
(*                                                                         *)
(* Text (commit summaries, the 'added' field of a bug history change) is   *)
(* a sequence of one-character strings, so that the regular expressions    *)
(* and str.split are computed character by character.                      *)
(***************************************************************************)
EXTENDS Integers, Sequences, FiniteSets, TLC

VARIABLES
    changesetid,      \* node_id / changesetid argument
    hg,               \* what the repository answers for json-rev/<changesetid>
    bugs,             \* the list parse_bugs(summary) returns for hg's summary
    bmo_attachments,  \* what BMO answered for /bug/<id>/attachment, per bug
    bmo_history,      \* what BMO answered for /bug/<id>/history, per bug
    run,              \* number of the current invocation of dump_telemetry
    pc,               \* position of the current invocation
    bug_id,           \* local of determine_review_system
    attachments,      \* local of determine_review_system
    calls,            \* HTTP requests issued by the current invocation, in order
    system,           \* value returned by determine_review_system
    raised,           \* exception leaving payload_for_changeset
    ping,             \* value returned by payload_for_changeset
    stdout,           \* what dump_telemetry printed
    exit_code,        \* exit status of dump_telemetry
    results,          \* outcome of every finished invocation
    markers           \* results of the marker detectors applied to a summary

vars == <<changesetid, hg, bugs, bmo_attachments, bmo_history, run, pc, bug_id,
          attachments, calls, system, raised, ping, stdout, exit_code, results,
          markers>>

None == "none"
\* No ping, no JSON body
NoPing == [changesetID |-> None, reviewSystemUsed |-> None]
NoJson == <<>>
NoRevision == [desc |-> <<>>, parents |-> <<>>]

-----------------------------------------------------------------------------
(* Bounds of the explored inputs *)

MaxLead == 2          \* leading blanks put in front of a summary
MaxDigits == 3        \* digits of a revision identifier D<digits>
MaxParents == 2       \* parents of a changeset
MaxBugs == 2          \* bugs parse_bugs finds in one summary
MaxAttachments == 1   \* attachments of a bug
MaxGroups == 1        \* change groups in a bug's history
MaxChanges == 1       \* changes in one change group

-----------------------------------------------------------------------------
(* Program constants *)

ATTACHMENT_TYPE_MOZREVIEW == "text/x-review-board-request"
ATTACHMENT_TYPE_GITHUB == "text/x-github-request"
ATTACHMENT_TYPE_PHABRICATOR == "text/x-phabricator-request"

\* The literal parts of PHABRICATOR_COMMIT_RE and BACKOUT_RE
PHABRICATOR_LABEL ==
    <<"D","i","f","f","e","r","e","n","t","i","a","l"," ",
      "R","e","v","i","s","i","o","n",":"," ">>
PHABRICATOR_MIN_DIGITS == 3
BACKOUT_LITERAL == <<"b","a","c","k","e","d"," ","o","u","t"," ">>

FLAG_FIELD == "flagtypes.name"
REVIEW_PLUS == <<"r","e","v","i","e","w","+">>

ReviewSystem == {"phabricator", "mozreview", "bmo", "unknown", "not_applicable"}

-----------------------------------------------------------------------------
(* Characters *)

UPPER == <<"A","B","C","D","E","F","G","H","I","J","K","L","M",
           "N","O","P","Q","R","S","T","U","V","W","X","Y","Z">>
LOWER == <<"a","b","c","d","e","f","g","h","i","j","k","l","m",
           "n","o","p","q","r","s","t","u","v","w","x","y","z">>
DIGITS == {"0","1","2","3","4","5","6","7","8","9"}

Range(f) == {f[i] : i \in DOMAIN f}

\* re.IGNORECASE compares letters by their case-folded form
FOLDED == [c \in Range(UPPER) |-> LOWER[CHOOSE i \in DOMAIN UPPER : UPPER[i] = c]]
lower(c) == IF c \in DOMAIN FOLDED THEN FOLDED[c] ELSE c

\* \w of a str pattern, and the class [\w:/.]
WORD == Range(UPPER) \cup Range(LOWER) \cup DIGITS \cup {"_"}
IsWord(c) == c \in WORD
InRevisionUrlClass(c) == IsWord(c) \/ c \in {":", "/", "."}

\* text[i..] starts with lit
LiteralAt(text, i, lit) ==
    /\ i + Len(lit) - 1 <= Len(text)
    /\ \A k \in 1..Len(lit) : text[i + k - 1] = lit[k]

LiteralAtIgnoreCase(text, i, lit) ==
    /\ i + Len(lit) - 1 <= Len(text)
    /\ \A k \in 1..Len(lit) : lower(text[i + k - 1]) = lower(lit[k])


-----------------------------------------------------------------------------
(* telemetry.py: pure functions *)

\* As PhabricatorMatchAt, with D[0-9]{4,}
PhabricatorMatchAt_FourDigits(text, i) ==
    /\ LiteralAt(text, i, PHABRICATOR_LABEL)
    /\ \E k \in (i + Len(PHABRICATOR_LABEL))..Len(text) :
          /\ \A j \in (i + Len(PHABRICATOR_LABEL))..(k - 1) :
                InRevisionUrlClass(text[j])
          /\ text[k] = "D"
          /\ k + PHABRICATOR_MIN_DIGITS + 1 <= Len(text)
          /\ \A j \in (k + 1)..(k + PHABRICATOR_MIN_DIGITS + 1) :
                text[j] \in DIGITS

\* PHABRICATOR_COMMIT_RE matched at position i: the label, then [\w:/.]*
\* (any split point k the backtracking matcher can reach), then D[0-9]{3,}
PhabricatorMatchAt(text, i) ==
    /\ LiteralAt(text, i, PHABRICATOR_LABEL)
    /\ \E k \in (i + Len(PHABRICATOR_LABEL))..Len(text) :
          /\ \A j \in (i + Len(PHABRICATOR_LABEL))..(k - 1) :
                InRevisionUrlClass(text[j])
          /\ text[k] = "D"
          /\ k + PHABRICATOR_MIN_DIGITS <= Len(text)
          /\ \A j \in (k + 1)..(k + PHABRICATOR_MIN_DIGITS) : text[j] \in DIGITS

\* re.search(PHABRICATOR_COMMIT_RE, ...): a match at any position
has_phab_markers(revision_description) ==
    \E i \in 1..Len(revision_description) :
        PhabricatorMatchAt(revision_description, i)

\* As has_backout_markers, with '^\s*backed out '
has_backout_markers_stripped(revision_description) ==
    \E i \in 1..Len(revision_description) :
        /\ \A j \in 1..(i - 1) : revision_description[j] = " "
        /\ LiteralAtIgnoreCase(revision_description, i, BACKOUT_LITERAL)

\* re.search(BACKOUT_RE, ...): '^' without re.MULTILINE is the start of the text
has_backout_markers(revision_description) ==
    LiteralAtIgnoreCase(revision_description, 1, BACKOUT_LITERAL)

has_merge_markers(revision_json) == Len(revision_json.parents) > 1

is_patch(attachment) ==
    \/ attachment.is_patch = 1
    \/ attachment.content_type \in {ATTACHMENT_TYPE_MOZREVIEW,
                                    ATTACHMENT_TYPE_GITHUB,
                                    ATTACHMENT_TYPE_PHABRICATOR}

has_mozreview_markers(attachment_list) ==
    LET patches == SelectSeq(attachment_list, is_patch)
    IN  \E i \in DOMAIN patches :
            patches[i].content_type = ATTACHMENT_TYPE_MOZREVIEW

\* str.split(sep): the pieces between the separators, empty pieces included
RECURSIVE split(_, _)
split(text, sep) ==
    IF \E i \in DOMAIN text : text[i] = sep
    THEN LET i == CHOOSE n \in DOMAIN text :
                     text[n] = sep /\ \A j \in 1..(n - 1) : text[j] # sep
         IN  <<SubSeq(text, 1, i - 1)>> \o split(SubSeq(text, i + 1, Len(text)), sep)
    ELSE <<text>>

\* As IsRawPatch, with is_patch(a) in place of a['is_patch'] == 1
IsRawPatch_AnyPatch(attachment) ==
    \/ attachment.is_patch = 1
    \/ attachment.content_type \in {ATTACHMENT_TYPE_MOZREVIEW,
                                    ATTACHMENT_TYPE_GITHUB,
                                    ATTACHMENT_TYPE_PHABRICATOR}

IsRawPatch(attachment) == attachment.is_patch = 1

\* As has_bmo_patch_review_markers, comparing 'added' whole instead of its pieces
has_bmo_patch_review_markers_unsplit(attachment_list, bug_history) ==
    LET patches == SelectSeq(attachment_list, IsRawPatch)
    IN  IF patches = <<>>
        THEN FALSE
        ELSE \E g \in DOMAIN bug_history :
                \E c \in DOMAIN bug_history[g].changes :
                    /\ bug_history[g].changes[c].field_name = FLAG_FIELD
                    /\ REVIEW_PLUS = bug_history[g].changes[c].added

has_bmo_patch_review_markers(attachment_list, bug_history) ==
    LET patches == SelectSeq(attachment_list, IsRawPatch)
    IN  IF patches = <<>>
        THEN FALSE
        ELSE \E g \in DOMAIN bug_history :
                \E c \in DOMAIN bug_history[g].changes :
                    /\ bug_history[g].changes[c].field_name = FLAG_FIELD
                    /\ REVIEW_PLUS \in
                           Range(split(bug_history[g].changes[c].added, ","))

\* requests.Response.raise_for_status raises for 4xx and 5xx
raise_for_status(status_code) == 400 <= status_code /\ status_code < 600

\* As pop, taking an end of the list that differs between invocations
pop_unstable(list) == list[IF run = 1 THEN Len(list) ELSE 1]

\* list.pop(): the last element
pop(list) == list[Len(list)]

-----------------------------------------------------------------------------
(* The explored inputs *)

Spaces(n) == [i \in 1..n |-> " "]
SampleDigits(n) == [i \in 1..n |-> IF i % 2 = 1 THEN "8" ELSE "6"]

BackedOut == <<"B","a","c","k","e","d"," ","o","u","t"," ">>
BugOne == <<"b","u","g"," ","1">>
RevisionUrl == <<"h","t","t","p","s",":","/","/","x","/">>

\* "Differential Revision: https://x/D86", ".../D861", ...
RevisionLine(n) == PHABRICATOR_LABEL \o RevisionUrl \o <<"D">> \o SampleDigits(n)
RevisionLines ==
    {RevisionLine(n) : n \in (PHABRICATOR_MIN_DIGITS - 1)..MaxDigits}

\* Summaries of the changesets the repository serves
Summaries ==
    {head \o body : head \in {<<>>, BackedOut},
                    body \in {BugOne} \cup RevisionLines}

ChangesetIds == {"deafa2891c61"}
ParentLists == {[i \in 1..n |-> "parent"] : n \in 1..MaxParents}
HttpStatuses == {200, 404, 500}

HgResponses ==
    {[status_code |-> 200, json |-> [desc |-> d, parents |-> p]] :
        d \in Summaries, p \in ParentLists}
    \cup {[status_code |-> s, json |-> NoRevision] : s \in HttpStatuses \ {200}}

BugIds == {1, 2}
SeqsUpTo(S, n) == UNION {[1..k -> S] : k \in 0..n}
BugLists == SeqsUpTo(BugIds, MaxBugs)

ContentTypes ==
    {ATTACHMENT_TYPE_MOZREVIEW, ATTACHMENT_TYPE_GITHUB,
     ATTACHMENT_TYPE_PHABRICATOR, "text/plain"}
Attachments == [is_patch : {0, 1}, content_type : ContentTypes]
AttachmentLists == SeqsUpTo(Attachments, MaxAttachments)

ReviewGranted ==
    [field_name |-> FLAG_FIELD,
     added |-> <<"r","e","v","i","e","w","?",",","r","e","v","i","e","w","+">>]
Changes ==
    {ReviewGranted,
     [field_name |-> FLAG_FIELD,
      added |-> <<"s","u","p","e","r","r","e","v","i","e","w","+">>],
     [field_name |-> "cc", added |-> REVIEW_PLUS]}
ChangeGroups == {[changes |-> c] : c \in SeqsUpTo(Changes, MaxChanges)}
Histories == SeqsUpTo(ChangeGroups, MaxGroups)

Unasked == [status_code |-> 0, json |-> NoJson]
BmoResponses(bodies) ==
    {[status_code |-> 200, json |-> b] : b \in bodies}
    \cup {[status_code |-> s, json |-> NoJson] : s \in HttpStatuses \ {200}}

\* A few bugs of a tracker whose content is known from the start
RawPatch == [is_patch |-> 1, content_type |-> "text/plain"]
ReviewBoardRequest == [is_patch |-> 0, content_type |-> ATTACHMENT_TYPE_MOZREVIEW]
SampleAttachmentResponses ==
    {[status_code |-> 200, json |-> a] :
        a \in {<<>>, <<RawPatch>>, <<ReviewBoardRequest>>}}
SampleHistoryResponses ==
    {[status_code |-> 200, json |-> <<[changes |-> <<ReviewGranted>>]>>],
     [status_code |-> 500, json |-> NoJson]}

-----------------------------------------------------------------------------
(* payload_for_changeset and determine_review_system, run by dump_telemetry *)

Request(kind, id) == [kind |-> kind, id |-> id]

\* As BeforeLookup, with the Phabricator check ahead of the backout/merge check
BeforeLookup_MarkerFirst(revision_json, bug_list) ==
    IF has_phab_markers(revision_json.desc)
    THEN "phabricator"
    ELSE IF has_backout_markers(revision_json.desc) \/ has_merge_markers(revision_json)
    THEN "not_applicable"
    ELSE IF bug_list = <<>>
    THEN "unknown"
    ELSE "lookup"

\* As BeforeLookup, with a summary without bug counted as needing no review
BeforeLookup_NoBugNotApplicable(revision_json, bug_list) ==
    IF has_backout_markers(revision_json.desc) \/ has_merge_markers(revision_json)
    THEN "not_applicable"
    ELSE IF has_phab_markers(revision_json.desc)
    THEN "phabricator"
    ELSE IF bug_list = <<>>
    THEN "not_applicable"
    ELSE "lookup"

\* As BeforeLookup, with the bug lookup ahead of the Phabricator check
BeforeLookup_LookupFirst(revision_json, bug_list) ==
    IF has_backout_markers(revision_json.desc) \/ has_merge_markers(revision_json)
    THEN "not_applicable"
    ELSE IF bug_list # <<>>
    THEN "lookup"
    ELSE IF has_phab_markers(revision_json.desc)
    THEN "phabricator"
    ELSE "unknown"

\* Steps 0, 1 and the bug lookup of determine_review_system: the value it
\* returns before any request to BMO, or "lookup" when it goes on to BMO
BeforeLookup(revision_json, bug_list) ==
    IF has_backout_markers(revision_json.desc) \/ has_merge_markers(revision_json)
    THEN "not_applicable"
    ELSE IF has_phab_markers(revision_json.desc)
    THEN "phabricator"
    ELSE IF bug_list = <<>>
    THEN "unknown"
    ELSE "lookup"

\* As AfterLookup, with step 3 ahead of step 2
AfterLookup_BmoFirst(attachment_list, bug_history) ==
    IF has_bmo_patch_review_markers(attachment_list, bug_history)
    THEN "bmo"
    ELSE IF has_mozreview_markers(attachment_list)
    THEN "mozreview"
    ELSE "unknown"

\* Steps 2 and 3 of determine_review_system
AfterLookup(attachment_list, bug_history) ==
    IF has_mozreview_markers(attachment_list)
    THEN "mozreview"
    ELSE IF has_bmo_patch_review_markers(attachment_list, bug_history)
    THEN "bmo"
    ELSE "unknown"

Payload(id, review_system) ==
    [changesetID |-> id, reviewSystemUsed |-> review_system]

\* As Printed, with a failure reported as an 'unknown' ping
Printed_Degraded(exception, payload) ==
    IF exception = None THEN <<[line |-> "ping", value |-> payload]>>
    ELSE <<[line |-> "ping",
            value |-> [changesetID |-> changesetid, reviewSystemUsed |-> "unknown"]]>>

\* What dump_telemetry prints: the ping, or its message for NoSuchChangeset;
\* any other exception leaves it without printing
Printed(exception, payload) ==
    IF exception = None
    THEN <<[line |-> "ping", value |-> payload]>>
    ELSE IF exception = "NoSuchChangeset"
    THEN <<[line |-> "Error: changeset does not exist", value |-> changesetid]>>
    ELSE <<>>

\* payload_for_changeset ends: it returns the ping for review_system, or
\* exception leaves it; dump_telemetry prints and exits
Finish(review_system, exception) ==
    LET payload == IF exception = None
                   THEN Payload(changesetid, review_system)
                   ELSE NoPing
    IN  /\ pc' = "done"
        /\ system' = review_system
        /\ raised' = exception
        /\ ping' = payload
        /\ stdout' = Printed(exception, payload)
        /\ exit_code' = IF exception = None THEN 0 ELSE 1
        /\ results' = Append(results, [ping |-> payload, raised |-> exception])

\* payload_for_changeset up to the first request to BMO
PayloadForChangeset ==
    /\ pc = "start"
    /\ calls' = <<Request("json-rev", changesetid)>>
    /\ IF hg.status_code = 404
       THEN Finish(None, "NoSuchChangeset") /\ UNCHANGED bug_id
       ELSE IF raise_for_status(hg.status_code)
       THEN Finish(None, "HTTPError") /\ UNCHANGED bug_id
       ELSE IF BeforeLookup(hg.json, bugs) # "lookup"
       THEN Finish(BeforeLookup(hg.json, bugs), None) /\ UNCHANGED bug_id
       ELSE /\ bug_id' = pop(bugs)
            /\ pc' = "fetch_attachments"
            /\ UNCHANGED <<system, raised, ping, stdout, exit_code, results>>
    /\ UNCHANGED <<changesetid, hg, bugs, bmo_attachments, bmo_history, run,
                   attachments, markers>>

\* fetch_attachments(bug_id): BMO answers as it answered before for this bug
FetchAttachments ==
    /\ pc = "fetch_attachments"
    /\ \E response \in IF bmo_attachments[bug_id] = Unasked
                       THEN BmoResponses(AttachmentLists)
                       ELSE {bmo_attachments[bug_id]} :
          /\ bmo_attachments' = [bmo_attachments EXCEPT ![bug_id] = response]
          /\ calls' = Append(calls, Request("attachment", bug_id))
          /\ IF raise_for_status(response.status_code)
             THEN Finish(None, "HTTPError") /\ UNCHANGED attachments
             ELSE /\ attachments' = response.json
                  /\ pc' = "fetch_bug_history"
                  /\ UNCHANGED <<system, raised, ping, stdout, exit_code, results>>
    /\ UNCHANGED <<changesetid, hg, bugs, bmo_history, run, bug_id, markers>>

\* fetch_bug_history(bug_id), then steps 2 and 3 of determine_review_system
FetchBugHistory ==
    /\ pc = "fetch_bug_history"
    /\ \E response \in IF bmo_history[bug_id] = Unasked
                       THEN BmoResponses(Histories)
                       ELSE {bmo_history[bug_id]} :
          /\ bmo_history' = [bmo_history EXCEPT ![bug_id] = response]
          /\ calls' = Append(calls, Request("history", bug_id))
          /\ IF raise_for_status(response.status_code)
             THEN Finish(None, "HTTPError")
             ELSE Finish(AfterLookup(attachments, response.json), None)
    /\ UNCHANGED <<changesetid, hg, bugs, bmo_attachments, run, bug_id,
                   attachments, markers>>

\* dump_telemetry is run again for the same changeset and repository
DumpTelemetryAgain ==
    /\ pc = "done"
    /\ run = 1
    /\ run' = run + 1
    /\ pc' = "start"
    /\ bug_id' = None
    /\ attachments' = <<>>
    /\ calls' = <<>>
    /\ system' = None
    /\ raised' = None
    /\ ping' = NoPing
    /\ stdout' = <<>>
    /\ exit_code' = None
    /\ UNCHANGED <<changesetid, hg, bugs, bmo_attachments, bmo_history, results,
                   markers>>

\* The invocation has not started
Idle ==
    /\ run = 1
    /\ bug_id = None
    /\ attachments = <<>>
    /\ calls = <<>>
    /\ system = None
    /\ raised = None
    /\ ping = NoPing
    /\ stdout = <<>>
    /\ exit_code = None
    /\ results = <<>>
    /\ markers = <<>>

Init ==
    /\ changesetid \in ChangesetIds
    /\ hg \in HgResponses
    /\ bugs \in IF hg.status_code = 200 THEN BugLists ELSE {<<>>}
    /\ bmo_attachments = [b \in BugIds |-> Unasked]
    /\ bmo_history = [b \in BugIds |-> Unasked]
    /\ pc = "start"
    /\ Idle

Next ==
    \/ PayloadForChangeset
    \/ FetchAttachments
    \/ FetchBugHistory

Spec == Init /\ [][Next]_vars

\* Two invocations for one changeset, against a tracker whose answers are
\* fixed from the start
InitTwice ==
    /\ changesetid \in ChangesetIds
    /\ hg \in HgResponses
    /\ bugs \in IF hg.status_code = 200 THEN BugLists ELSE {<<>>}
    /\ bmo_attachments \in [BugIds -> SampleAttachmentResponses]
    /\ bmo_history \in [BugIds -> SampleHistoryResponses]
    /\ pc = "start"
    /\ Idle

NextTwice ==
    \/ PayloadForChangeset
    \/ FetchAttachments
    \/ FetchBugHistory
    \/ DumpTelemetryAgain

SpecTwice == InitTwice /\ [][NextTwice]_vars

-----------------------------------------------------------------------------
(* The marker detectors applied to summaries *)

TextHeads ==
    {<<>>,
     <<"b","a","c","k","e","d"," ","o","u","t"," ">>,
     <<"B","a","c","k","e","d"," ","O","u","t"," ">>,
     <<"B","A","C","K","E","D"," ","O","U","T"," ">>,
     <<"B","a","c","k","e","d"," ","o","u","t">>}
TextLeads == {Spaces(n) : n \in 0..MaxLead} \cup {<<"r","e",":"," ">>}
TextBodies == {<<>>, BugOne} \cup RevisionLines
TextSummaries ==
    {lead \o head \o body :
        lead \in TextLeads, head \in TextHeads, body \in TextBodies}

InitText ==
    /\ changesetid \in ChangesetIds
    /\ hg \in {[status_code |-> 200, json |-> [desc |-> d, parents |-> p]] :
                  d \in TextSummaries, p \in ParentLists}
    /\ bugs = <<>>
    /\ bmo_attachments = [b \in BugIds |-> Unasked]
    /\ bmo_history = [b \in BugIds |-> Unasked]
    /\ pc = "text"
    /\ Idle

Detect(name, found) ==
    /\ pc = "text"
    /\ name \notin DOMAIN markers
    /\ markers' = (name :> found) @@ markers
    /\ UNCHANGED <<changesetid, hg, bugs, bmo_attachments, bmo_history, run, pc,
                   bug_id, attachments, calls, system, raised, ping, stdout,
                   exit_code, results>>

DetectBackout == Detect("backout", has_backout_markers(hg.json.desc))
DetectPhab == Detect("phab", has_phab_markers(hg.json.desc))
DetectMerge == Detect("merge", has_merge_markers(hg.json))

NextText == DetectBackout \/ DetectPhab \/ DetectMerge

SpecText == InitText /\ [][NextText]_vars

-----------------------------------------------------------------------------
(* Properties *)

\* text holds word from position i on, letter case aside or not
HoldsAt(text, i, word, any_case) ==
    /\ i >= 1
    /\ i + Len(word) - 1 <= Len(text)
    /\ \A k \in 1..Len(word) :
          IF any_case
          THEN lower(text[i + k - 1]) = word[k]
          ELSE text[i + k - 1] = word[k]

\* The text starts, at its very first character, with 'backed out ' in any case
MatchesBackoutPattern(text) ==
    HoldsAt(text, 1, <<"b","a","c","k","e","d"," ","o","u","t"," ">>, TRUE)

\* The text starts with 'backed out ' in any case, once leading blanks are dropped
BeginsWithBackedOutAfterBlanks(text) ==
    \E n \in 0..Len(text) :
        /\ \A j \in 1..n : text[j] = " "
        /\ HoldsAt(text, n + 1, <<"b","a","c","k","e","d"," ","o","u","t"," ">>, TRUE)

\* The text holds 'Differential Revision: ', a run of URL characters, and a
\* revision identifier: 'D' and at least n digits
HasRevisionMarker(text, n) ==
    \E i \in 1..Len(text) :
        /\ HoldsAt(text, i, PHABRICATOR_LABEL, FALSE)
        /\ \E k \in (i + Len(PHABRICATOR_LABEL))..(Len(text) - n) :
              /\ \A j \in (i + Len(PHABRICATOR_LABEL))..(k - 1) :
                    InRevisionUrlClass(text[j])
              /\ text[k] = "D"
              /\ \A j \in (k + 1)..(k + n) : text[j] \in DIGITS

\* 'review+' is one of the comma-separated values of added
GrantsReview(added) ==
    \E i \in 1..Len(added) :
        /\ HoldsAt(added, i, REVIEW_PLUS, FALSE)
        /\ i = 1 \/ added[i - 1] = ","
        /\ i + Len(REVIEW_PLUS) - 1 = Len(added) \/ added[i + Len(REVIEW_PLUS)] = ","

HistoryGrantsReview(bug_history) ==
    \E g \in DOMAIN bug_history : \E c \in DOMAIN bug_history[g].changes :
        /\ bug_history[g].changes[c].field_name = "flagtypes.name"
        /\ GrantsReview(bug_history[g].changes[c].added)

\* determine_review_system was called and the invocation is over
Determined == pc = "done" /\ hg.status_code = 200
Merge == Len(hg.json.parents) > 1
\* The invocation reached the bug lookup and both fetches succeeded
LookedUp ==
    /\ pc = "done"
    /\ Len(calls) = 3
    /\ bmo_attachments[bug_id].status_code = 200
    /\ bmo_history[bug_id].status_code = 200
FetchedHistory == bmo_history[bug_id].json
SomeAttachment(P(_)) == \E i \in DOMAIN attachments : P(attachments[i])
IsStrictPatch(a) == a.is_patch = 1
IsReviewBoard(a) == a.content_type = "text/x-review-board-request"
IsStrictReviewBoard(a) == IsStrictPatch(a) /\ IsReviewBoard(a)

\* C1: a changeset with more than one parent, or whose summary matches the
\* backout pattern, is classified not_applicable, whatever else its summary
\* holds and whatever the referenced bugs are.
C1_MergeOrBackoutNotApplicable ==
    (Determined /\ (Merge \/ MatchesBackoutPattern(hg.json.desc)))
        => (system = "not_applicable" /\ raised = None /\ Len(calls) = 1)

C1_Witness ==
    /\ Determined
    /\ ~Merge
    /\ MatchesBackoutPattern(hg.json.desc)
    /\ HasRevisionMarker(hg.json.desc, 3)
    /\ bugs # <<>>
    /\ system = "not_applicable"

\* C2 as stated: a non-merge, non-backout summary with a marker line whose
\* revision identifier is 'D' plus digits (one digit or more) is classified
\* phabricator.
C2_AnyDigitsPhabricator ==
    (Determined /\ ~Merge /\ ~MatchesBackoutPattern(hg.json.desc)
         /\ HasRevisionMarker(hg.json.desc, 1))
        => system = "phabricator"

\* C2 amended: a non-merge, non-backout summary with a marker line whose
\* revision identifier is 'D' plus at least three digits is classified
\* phabricator, whatever bugs it references.
C2_ThreeDigitsPhabricator ==
    (Determined /\ ~Merge /\ ~MatchesBackoutPattern(hg.json.desc)
         /\ HasRevisionMarker(hg.json.desc, 3))
        => (system = "phabricator" /\ raised = None /\ Len(calls) = 1)

C2_Witness ==
    /\ Determined
    /\ ~Merge
    /\ ~MatchesBackoutPattern(hg.json.desc)
    /\ HasRevisionMarker(hg.json.desc, 3)
    /\ bugs # <<>>
    /\ system = "phabricator"

\* C3: a non-merge summary without backout marker and without Phabricator
\* marker in which parse_bugs finds no bug is classified unknown, and no
\* exception is raised: the ping is returned and printed.
C3_NoBugUnknown ==
    (Determined /\ ~Merge /\ ~MatchesBackoutPattern(hg.json.desc)
         /\ ~HasRevisionMarker(hg.json.desc, 3) /\ bugs = <<>>)
        => /\ system = "unknown"
           /\ raised = None
           /\ ping = [changesetID |-> changesetid, reviewSystemUsed |-> "unknown"]
           /\ exit_code = 0

C3_Witness ==
    /\ Determined
    /\ ~Merge
    /\ ~MatchesBackoutPattern(hg.json.desc)
    /\ ~HasRevisionMarker(hg.json.desc, 3)
    /\ bugs = <<>>
    /\ system = "unknown"
    /\ raised = None

\* C4: after a successful lookup, an attachment with content_type
\* text/x-review-board-request and is_patch = 1 gives mozreview, with or
\* without a review+ flag in the history.
C4_ReviewBoardAttachmentMozreview ==
    (LookedUp /\ SomeAttachment(IsStrictReviewBoard)) => system = "mozreview"

C4_Witness ==
    /\ LookedUp
    /\ SomeAttachment(IsStrictReviewBoard)
    /\ ~HistoryGrantsReview(FetchedHistory)
    /\ system = "mozreview"

\* C5 as stated: after a successful lookup, an attachment with is_patch = 1
\* and a review+ flag change in the history give bmo.
C5_PatchAndReviewBmo ==
    (LookedUp /\ SomeAttachment(IsStrictPatch) /\ HistoryGrantsReview(FetchedHistory))
        => system = "bmo"

\* C5 amended: after a successful lookup, an attachment with is_patch = 1 and
\* a review+ flag change in the history give bmo, provided no attachment has
\* content_type text/x-review-board-request.
C5_PatchAndReviewBmoUnlessReviewBoard ==
    (LookedUp /\ SomeAttachment(IsStrictPatch) /\ HistoryGrantsReview(FetchedHistory)
         /\ ~SomeAttachment(IsReviewBoard))
        => system = "bmo"

C5_Witness ==
    /\ LookedUp
    /\ SomeAttachment(IsStrictPatch)
    /\ ~SomeAttachment(IsReviewBoard)
    /\ \E g \in DOMAIN FetchedHistory : \E c \in DOMAIN FetchedHistory[g].changes :
          /\ GrantsReview(FetchedHistory[g].changes[c].added)
          /\ \E i \in DOMAIN FetchedHistory[g].changes[c].added :
                FetchedHistory[g].changes[c].added[i] = ","
    /\ system = "bmo"

\* C6 as stated: after a successful lookup, a bug without any attachment with
\* is_patch = 1 gives unknown.
C6_NoStrictPatchUnknown ==
    (LookedUp /\ ~SomeAttachment(IsStrictPatch)) => system = "unknown"

\* C6 amended: after a successful lookup, a bug without any attachment with
\* is_patch = 1 and without any attachment of content_type
\* text/x-review-board-request gives unknown, even with review+ in its history.
C6_NoStrictPatchNoReviewBoardUnknown ==
    (LookedUp /\ ~SomeAttachment(IsStrictPatch) /\ ~SomeAttachment(IsReviewBoard))
        => system = "unknown"

C6_Witness ==
    /\ LookedUp
    /\ attachments # <<>>
    /\ ~SomeAttachment(IsStrictPatch)
    /\ ~SomeAttachment(IsReviewBoard)
    /\ HistoryGrantsReview(FetchedHistory)
    /\ system = "unknown"

\* A fetch of the finished invocation got a response that is not a success
SomeFetchFailed ==
    \/ hg.status_code # 200
    \/ Len(calls) >= 2 /\ bmo_attachments[bug_id].status_code # 200
    \/ Len(calls) >= 3 /\ bmo_history[bug_id].status_code # 200

PrintsAPing == \E i \in DOMAIN stdout : stdout[i].line = "ping"

\* C7: a not-found answer for the changeset raises NoSuchChangeset; any other
\* failed fetch (changeset, attachments, history) raises an error; when an
\* error is raised no ping is returned or printed.
C7_FailuresAbort ==
    pc = "done" =>
        /\ hg.status_code = 404 => raised = "NoSuchChangeset"
        /\ SomeFetchFailed => raised # None
        /\ raised # None => (ping = NoPing /\ ~PrintsAPing /\ exit_code # 0)

C7_Witness ==
    /\ pc = "done"
    /\ Len(calls) = 3
    /\ bmo_attachments[bug_id].status_code = 200
    /\ bmo_history[bug_id].status_code # 200
    /\ raised = "HTTPError"
    /\ ping = NoPing
    /\ stdout = <<>>

\* C8: the requests of an invocation are a prefix of: changeset, attachments
\* of the bug, history of the bug; the changeset is fetched first and once;
\* BMO is asked only for a non-merge changeset without backout or Phabricator
\* marker in which a bug was found.
C8_FetchChain ==
    /\ pc # "start" => (Len(calls) >= 1 /\ calls[1] = [kind |-> "json-rev", id |-> changesetid])
    /\ Len(calls) <= 3
    /\ \A i \in DOMAIN calls : i > 1 => calls[i].kind # "json-rev"
    /\ Len(calls) >= 2 =>
          /\ hg.status_code = 200
          /\ ~Merge
          /\ ~MatchesBackoutPattern(hg.json.desc)
          /\ ~HasRevisionMarker(hg.json.desc, 3)
          /\ calls[2].kind = "attachment"
          /\ calls[2].id \in Range(bugs)
    /\ Len(calls) = 3 =>
          /\ calls[3] = [kind |-> "history", id |-> calls[2].id]
          /\ bmo_attachments[calls[2].id].status_code = 200

C8_Witness ==
    /\ pc = "done"
    /\ Len(calls) = 3
    /\ calls[2].kind = "attachment"
    /\ calls[3].kind = "history"

\* C9 as stated: has_backout_markers is true exactly for the summaries that
\* begin, after any amount of leading whitespace, with the backout phrase in
\* any case.
C9_BackoutIgnoresLeadingBlanks ==
    "backout" \in DOMAIN markers =>
        (markers["backout"] <=> BeginsWithBackedOutAfterBlanks(hg.json.desc))

\* C9 amended: has_backout_markers is true exactly for the summaries whose
\* first characters are 'backed out ' (with the blank that follows) in any
\* case; leading whitespace is not skipped.
C9_BackoutAtFirstCharacter ==
    "backout" \in DOMAIN markers =>
        (markers["backout"] <=> MatchesBackoutPattern(hg.json.desc))

C9_Witness ==
    /\ "backout" \in DOMAIN markers
    /\ hg.json.desc # <<>>
    /\ hg.json.desc[1] = " "
    /\ BeginsWithBackedOutAfterBlanks(hg.json.desc)
    /\ ~markers["backout"]

\* Two of the referenced bugs would be classified differently
BugsDisagree ==
    \E b1 \in Range(bugs), b2 \in Range(bugs) :
        /\ bmo_attachments[b1].status_code = 200
        /\ bmo_attachments[b2].status_code = 200
        /\ bmo_history[b1].status_code = 200
        /\ bmo_history[b2].status_code = 200
        /\ AfterLookup(bmo_attachments[b1].json, bmo_history[b1].json)
               # AfterLookup(bmo_attachments[b2].json, bmo_history[b2].json)

====
